---- MODULE Spec2Model ----
(***************************************************************************)
(* Model of mshadow/base.h: the operator traits (namespace op), the saver  *)
(* traits (namespace sv), the reducer traits (namespace red) and the       *)
(* limits helper (namespace red::limits).                                  *)
(*                                                                         *)
(* Every function of the header is a template over DType.  Arithmetic is   *)
(* modelled for DType = index_t (typedef unsigned, base.h:117), scaled to  *)
(* W bits: unsigned arithmetic wraps modulo 2^W, so no operation of the    *)
(* model has undefined behaviour except integer division by zero, which    *)
(* is a nondeterministic choice.  red::maximum needs limits::MinValue,     *)
(* which the header specialises for float, double and int only; for these  *)
(* three types only the ORDER of the values matters to maximum, so a value *)
(* of float/double is modelled by its rank: the finite values are          *)
(* -FLT_MAX..FLT_MAX and the two infinities lie just outside.  NaN is      *)
(* unordered and not modelled.  Floating-point rounding is not modelled.   *)
(***************************************************************************)
EXTENDS Integers, Sequences, FiniteSets, TLC

\* ------------------------------------------------------------ bounds
\* width in bits of the scaled integer types (unsigned and int)
W == 3
\* largest finite float, scaled (FLT_MAX of <cfloat>)
FLT_MAX == 2
\* longest input sequence of a reduction
MaxLen == 3
\* number of concurrent streams
NStreams == 2
\* longest input sequence the concurrent streams split among themselves
MaxParLen == 2

\* ------------------------------------------------------------ numeric types
Mod == 2^W
\* index_t: typedef unsigned index_t
index_t == 0..(Mod - 1)
\* conversion of a mathematical integer to index_t (unsigned wrap-around)
DTypeOf(n) == n % Mod

INT_MIN == -(2^(W - 1))
INT_MAX == 2^(W - 1) - 1
\* DBL_MAX of <cfloat>: larger than FLT_MAX
DBL_MAX == FLT_MAX + 1
\* the infinities of an IEEE type whose largest finite value is m
NegInf(m) == -m - 1
PosInf(m) == m + 1

\* the values of the DType a template is instantiated with
Values(DType) ==
  CASE DType = "unsigned" -> index_t
    [] DType = "int"      -> INT_MIN..INT_MAX
    [] DType = "float"    -> NegInf(FLT_MAX)..PosInf(FLT_MAX)
    [] DType = "double"   -> NegInf(DBL_MAX)..PosInf(DBL_MAX)

\* ------------------------------------------------------------ namespace op
mul_Map(a, b) == DTypeOf(a * b)
plus_Map(a, b) == DTypeOf(a + b)
minus_Map(a, b) == DTypeOf(a - b)
\* a / b, b # 0 (unsigned division truncates)
div_Map(a, b) == DTypeOf(a \div b)
\* faulty variant: the first operand comes back
right_Map_Left(a, b) == a
right_Map(a, b) == b
identity_Map(a) == a

\* OPType::Map(a, b) for the operator tag o
Map(o, a, b) ==
  CASE o = "mul"   -> mul_Map(a, b)
    [] o = "plus"  -> plus_Map(a, b)
    [] o = "minus" -> minus_Map(a, b)
    [] o = "div"   -> div_Map(a, b)
    [] o = "right" -> right_Map(a, b)

\* ------------------------------------------------------------ namespace sv
Savers == {"saveto", "plusto", "minusto", "multo", "divto"}

\* Save(a, b): the value of a after the call
saveto_Save(a, b) == b
\* faulty variant: = in place of +=
plusto_Save_Assign(a, b) == b
plusto_Save(a, b) == DTypeOf(a + b)
minusto_Save(a, b) == DTypeOf(a - b)
multo_Save(a, b) == DTypeOf(a * b)
\* a /= b, b # 0
divto_Save(a, b) == DTypeOf(a \div b)

\* typedef op::... OPType of each saver
OPType(s) ==
  CASE s = "saveto"  -> "right"
    [] s = "plusto"  -> "plus"
    [] s = "minusto" -> "minus"
    [] s = "multo"   -> "mul"
    [] s = "divto"   -> "div"

\* faulty variant: minusto without its BLAS constants
Members_NoMinusBLAS(s) ==
  IF s \in {"saveto", "plusto"}
    THEN {"Save", "AlphaBLAS", "BetaBLAS", "OPType"}
    ELSE {"Save", "OPType"}

\* the members each saver struct declares
Members(s) ==
  CASE s = "saveto"  -> {"Save", "AlphaBLAS", "BetaBLAS", "OPType"}
    [] s = "plusto"  -> {"Save", "AlphaBLAS", "BetaBLAS", "OPType"}
    [] s = "minusto" -> {"Save", "AlphaBLAS", "BetaBLAS", "OPType"}
    [] s = "multo"   -> {"Save", "OPType"}
    [] s = "divto"   -> {"Save", "OPType"}

\* AlphaBLAS() / BetaBLAS(): 1.0f, 0.0f and -1.0f as integers
AlphaBLAS(s) ==
  CASE s = "saveto"  -> 1
    [] s = "plusto"  -> 1
    [] s = "minusto" -> -1

\* faulty variant: every beta is 1.0f
BetaBLAS_One(s) == 1

BetaBLAS(s) ==
  CASE s = "saveto"  -> 0
    [] s = "plusto"  -> 1
    [] s = "minusto" -> 1

\* ------------------------------------------------------------ namespace red
\* red::sum (DType = index_t)
\* dst += src: the value stored to dst
\* faulty variant: = in place of +=
sum_Reduce_Assign(dst, src) == src
\* faulty variant: -= in place of +=
sum_Reduce_Minus(dst, src) == DTypeOf(dst - src)
\* faulty variant: the loaded dst is stored back unchanged
sum_Reduce_Keep(dst, src) == dst
sum_Reduce(dst, src) == DTypeOf(dst + src)
sum_PartialGrad(redres, redsrc) == 1
sum_InitValue == 0

\* red::limits::MinValue<DType>(), specialised for float, double and int
MinValue(DType) ==
  CASE DType = "float"  -> -FLT_MAX
    [] DType = "double" -> -DBL_MAX
    [] DType = "int"    -> INT_MIN

\* std::max(x, y): (x < y) ? y : x
std_max(x, y) == IF x < y THEN y ELSE x

\* red::maximum
\* dst = max(dst, src): the value stored to dst
maximum_Reduce(dst, src) == std_max(dst, src)
maximum_PartialGrad(redres, redsrc) == IF redres = redsrc THEN 1 ELSE 0
maximum_InitValue(DType) == MinValue(DType)

\* the reducer r instantiated with DType
Reduce(r, dst, src) ==
  IF r = "sum" THEN sum_Reduce(dst, src) ELSE maximum_Reduce(dst, src)
InitValue(r, DType) ==
  IF r = "sum" THEN sum_InitValue ELSE maximum_InitValue(DType)
PartialGrad(r, redres, redsrc) ==
  IF r = "sum" THEN sum_PartialGrad(redres, redsrc)
               ELSE maximum_PartialGrad(redres, redsrc)

\* the instantiations modelled: sum over index_t, maximum over the three
\* types MinValue is specialised for
Instances ==
  {<<"sum", "unsigned">>, <<"maximum", "int">>,
   <<"maximum", "float">>, <<"maximum", "double">>}

\* the sequences of at most len values of DType
Inputs(DType, len) ==
  UNION {[1..n -> Values(DType)] : n \in 0..len}

\* ------------------------------------------------------------ state
VARIABLES
  a,      \* the caller's first value: Map's a, Save's destination
  b,      \* the caller's second value: Map's b, Save's source
  a0,     \* a when the last call was made
  b0,     \* b when the last call was made
  call,   \* the last call made, <<struct, member>>; <<"none", "none">> at first
  ret,    \* what the last call returned (kept by a void call)
  red,    \* the reducer of the reduction: "sum" or "maximum"
  DT,     \* the DType of the reduction
  seq,    \* the sequence reduced
  todo,   \* the indices of seq not merged yet
  dst,    \* the destination of the reduction
  pc,     \* the phase of the reduction
  grad,   \* the partial gradients of the elements, once computed
  spc,    \* each stream's position
  part,   \* each stream's private destination
  reg,    \* each stream's copy of the shared destination, once loaded
  sync    \* whether the callers serialise the merges into dst, and who holds dst

opVars == <<a, b, a0, b0, call, ret>>
redVars == <<red, DT, seq, todo, dst, pc, grad>>
strVars == <<spc, part, reg, sync>>
vars ==
  <<a, b, a0, b0, call, ret, red, DT, seq, todo, dst, pc, grad,
    spc, part, reg, sync>>

\* no call of op or sv is made
IdleOp ==
  /\ a = 0
  /\ b = 0
  /\ a0 = 0
  /\ b0 = 0
  /\ call = <<"none", "none">>
  /\ ret = 0

\* no reduction is made
IdleRed ==
  /\ red = "sum"
  /\ DT = "unsigned"
  /\ seq = <<>>
  /\ todo = {}
  /\ dst = 0
  /\ pc = "idle"
  /\ grad = <<>>

\* no stream runs
IdleStreams ==
  /\ spc = <<>>
  /\ part = <<>>
  /\ reg = <<>>
  /\ sync = [on |-> FALSE, owner |-> 0]

\* ------------------------------------------------------------ calls of op and sv
InitOp ==
  /\ a \in index_t
  /\ b \in index_t
  /\ a0 = a
  /\ b0 = b
  /\ call = <<"none", "none">>
  /\ ret = 0
  /\ IdleRed
  /\ IdleStreams

\* a call of a Map: arguments by value, one result
Returns(name, r) ==
  /\ call' = name
  /\ ret' = r
  /\ a0' = a
  /\ b0' = b
  /\ UNCHANGED <<a, b>>
  /\ UNCHANGED <<redVars, strVars>>

\* a call of a Save: the destination by reference, the source by value
Saves(name, r) ==
  /\ call' = name
  /\ a' = r
  /\ a0' = a
  /\ b0' = b
  /\ UNCHANGED <<b, ret>>
  /\ UNCHANGED <<redVars, strVars>>

Call_mul_Map == Returns(<<"mul", "Map">>, mul_Map(a, b))
Call_plus_Map == Returns(<<"plus", "Map">>, plus_Map(a, b))
Call_minus_Map == Returns(<<"minus", "Map">>, minus_Map(a, b))
\* integer division by zero is undefined: any value may come back
Call_div_Map ==
  IF b # 0 THEN Returns(<<"div", "Map">>, div_Map(a, b))
           ELSE \E r \in index_t : Returns(<<"div", "Map">>, r)
Call_right_Map == Returns(<<"right", "Map">>, right_Map(a, b))
Call_identity_Map == Returns(<<"identity", "Map">>, identity_Map(a))

Call_saveto_Save == Saves(<<"saveto", "Save">>, saveto_Save(a, b))
Call_plusto_Save == Saves(<<"plusto", "Save">>, plusto_Save(a, b))
Call_minusto_Save == Saves(<<"minusto", "Save">>, minusto_Save(a, b))
Call_multo_Save == Saves(<<"multo", "Save">>, multo_Save(a, b))
Call_divto_Save ==
  IF b # 0 THEN Saves(<<"divto", "Save">>, divto_Save(a, b))
           ELSE \E r \in index_t : Saves(<<"divto", "Save">>, r)

\* s::AlphaBLAS() / s::BetaBLAS() compile only for a saver that declares them
Call_AlphaBLAS ==
  \E s \in Savers :
    /\ "AlphaBLAS" \in Members(s)
    /\ Returns(<<s, "AlphaBLAS">>, AlphaBLAS(s))
Call_BetaBLAS ==
  \E s \in Savers :
    /\ "BetaBLAS" \in Members(s)
    /\ Returns(<<s, "BetaBLAS">>, BetaBLAS(s))

NextOp ==
  \/ Call_mul_Map
  \/ Call_plus_Map
  \/ Call_minus_Map
  \/ Call_div_Map
  \/ Call_right_Map
  \/ Call_identity_Map
  \/ Call_saveto_Save
  \/ Call_plusto_Save
  \/ Call_minusto_Save
  \/ Call_multo_Save
  \/ Call_divto_Save
  \/ Call_AlphaBLAS
  \/ Call_BetaBLAS

SpecOp == InitOp /\ [][NextOp]_vars

\* ------------------------------------------------------------ a sequential reduction
\* A reduction folds seq into dst: dst = InitValue(), then one Reduce per
\* element, in any order; the backward pass then asks PartialGrad for the
\* gradient of every element.
InitFold ==
  /\ IdleOp
  /\ \E i \in Instances : red = i[1] /\ DT = i[2]
  /\ seq \in Inputs(DT, MaxLen)
  /\ todo = DOMAIN seq
  /\ dst = 0
  /\ pc = "init"
  /\ grad = <<>>
  /\ IdleStreams

Fold_InitValue ==
  /\ pc = "init"
  /\ dst' = InitValue(red, DT)
  /\ pc' = "fold"
  /\ UNCHANGED <<red, DT, seq, todo, grad>>
  /\ UNCHANGED <<opVars, strVars>>

Fold_Reduce ==
  /\ pc = "fold"
  /\ \E i \in todo :
       /\ dst' = Reduce(red, dst, seq[i])
       /\ todo' = todo \ {i}
  /\ UNCHANGED <<red, DT, seq, pc, grad>>
  /\ UNCHANGED <<opVars, strVars>>

Fold_PartialGrad ==
  /\ pc = "fold"
  /\ todo = {}
  /\ grad' = [i \in DOMAIN seq |-> PartialGrad(red, dst, seq[i])]
  /\ pc' = "done"
  /\ UNCHANGED <<red, DT, seq, todo, dst>>
  /\ UNCHANGED <<opVars, strVars>>

NextFold ==
  \/ Fold_InitValue
  \/ Fold_Reduce
  \/ Fold_PartialGrad

SpecFold == InitFold /\ [][NextFold]_vars

\* ------------------------------------------------------------ parallel partial reductions
Streams == 1..NStreams

\* the instantiations the streams run
StreamInstances == {<<"sum", "unsigned">>, <<"maximum", "int">>, <<"maximum", "float">>}

\* Disjoint destinations: every stream folds the elements it takes into its
\* own part[s], started at InitValue(); an element is taken by one stream,
\* so the streams split the sequence in any way, a stream may take nothing.
\* A second pass then merges the parts into dst with Reduce, in any order.
InitPar ==
  /\ IdleOp
  /\ \E i \in StreamInstances : red = i[1] /\ DT = i[2]
  /\ seq \in Inputs(DT, MaxParLen)
  /\ todo = DOMAIN seq
  /\ dst = 0
  /\ pc = "init"
  /\ grad = <<>>
  /\ spc = [s \in Streams |-> "init"]
  /\ part = [s \in Streams |-> 0]
  /\ reg = <<>>
  /\ sync = [on |-> FALSE, owner |-> 0]

Par_InitValue(s) ==
  /\ spc[s] = "init"
  /\ part' = [part EXCEPT ![s] = InitValue(red, DT)]
  /\ spc' = [spc EXCEPT ![s] = "fold"]
  /\ UNCHANGED <<opVars, redVars, reg, sync>>

Par_Reduce(s) ==
  /\ spc[s] = "fold"
  /\ \E i \in todo :
       /\ part' = [part EXCEPT ![s] = Reduce(red, part[s], seq[i])]
       /\ todo' = todo \ {i}
  /\ UNCHANGED <<opVars, red, DT, seq, dst, pc, grad, spc, reg, sync>>

\* the stream ends when no element is left to take
Par_Done(s) ==
  /\ spc[s] = "fold"
  /\ todo = {}
  /\ spc' = [spc EXCEPT ![s] = "done"]
  /\ UNCHANGED <<opVars, redVars, part, reg, sync>>

Merge_InitValue ==
  /\ pc = "init"
  /\ dst' = InitValue(red, DT)
  /\ pc' = "merge"
  /\ UNCHANGED <<opVars, red, DT, seq, todo, grad, strVars>>

Merge_Reduce(s) ==
  /\ pc = "merge"
  /\ spc[s] = "done"
  /\ dst' = Reduce(red, dst, part[s])
  /\ spc' = [spc EXCEPT ![s] = "merged"]
  /\ UNCHANGED <<opVars, red, DT, seq, todo, pc, grad, part, reg, sync>>

NextPar ==
  \/ \E s \in Streams : Par_InitValue(s)
  \/ \E s \in Streams : Par_Reduce(s)
  \/ \E s \in Streams : Par_Done(s)
  \/ Merge_InitValue
  \/ \E s \in Streams : Merge_Reduce(s)

SpecPar == InitPar /\ [][NextPar]_vars

\* ------------------------------------------------------------ a shared destination
\* Every stream s merges the element seq[s] into the one shared dst by a call
\* of Reduce, dst being InitValue() at first.  Reduce is no atomic step:
\* sum::Reduce (dst += src) loads the volatile dst and then stores the sum;
\* maximum::Reduce (dst = max(dst, src)) loads dst to compare it with src,
\* max returns a reference to dst or to src, and the assignment reads the
\* referenced object (dst is loaded again when it was chosen) and stores it.
\* Concurrent calls on one dst race, and the race's outcomes are the
\* interleavings of these loads and stores.  When the callers serialise the
\* calls (sync.on), a stream enters Reduce only while no other is in it.
InitShared ==
  /\ IdleOp
  /\ \E i \in {<<"sum", "unsigned">>, <<"maximum", "int">>} : red = i[1] /\ DT = i[2]
  /\ \E n \in 1..NStreams : seq \in [1..n -> Values(DT)]
  /\ todo = DOMAIN seq
  /\ dst = InitValue(red, DT)
  /\ pc = "shared"
  /\ grad = <<>>
  /\ spc = [s \in DOMAIN seq |-> "call"]
  /\ part = <<>>
  /\ reg = [s \in DOMAIN seq |-> 0]
  /\ \E on \in BOOLEAN : sync = [on |-> on, owner |-> 0]

\* the load of dst that begins Reduce(dst, seq[s]); maximum compares the
\* loaded value with src: (dst < src) ? src : dst
Reduce_Load(s) ==
  /\ spc[s] = "call"
  /\ sync.on => sync.owner = 0
  /\ sync' = [sync EXCEPT !.owner = IF sync.on THEN s ELSE 0]
  /\ reg' = [reg EXCEPT ![s] = dst]
  /\ spc' =
       [spc EXCEPT ![s] =
          IF red = "sum" THEN "add"
          ELSE IF std_max(dst, seq[s]) = dst THEN "dst" ELSE "src"]
  /\ UNCHANGED <<opVars, redVars, part>>

\* maximum::Reduce, max returned the reference to dst: dst is read again
Reduce_Reload(s) ==
  /\ spc[s] = "dst"
  /\ reg' = [reg EXCEPT ![s] = dst]
  /\ spc' = [spc EXCEPT ![s] = "copy"]
  /\ UNCHANGED <<opVars, redVars, part, sync>>

\* the store that ends Reduce(dst, seq[s])
Reduce_Store(s) ==
  /\ spc[s] \in {"add", "src", "copy"}
  /\ dst' =
       CASE spc[s] = "add"  -> sum_Reduce(reg[s], seq[s])
         [] spc[s] = "src"  -> seq[s]
         [] spc[s] = "copy" -> reg[s]
  /\ spc' = [spc EXCEPT ![s] = "stored"]
  /\ todo' = todo \ {s}
  /\ sync' = [sync EXCEPT !.owner = 0]
  /\ UNCHANGED <<opVars, red, DT, seq, pc, grad, part, reg>>

NextShared ==
  \/ \E s \in DOMAIN seq : Reduce_Load(s)
  \/ \E s \in DOMAIN seq : Reduce_Reload(s)
  \/ \E s \in DOMAIN seq : Reduce_Store(s)

SpecShared == InitShared /\ [][NextShared]_vars

\* ------------------------------------------------------------ reference values
RECURSIVE SumSeq(_)
\* the arithmetic sum of a sequence of integers
SumSeq(s) == IF s = <<>> THEN 0 ELSE Head(s) + SumSeq(Tail(s))

\* the greatest element of a non-empty sequence
TrueMax(s) ==
  CHOOSE m \in {s[i] : i \in DOMAIN s} : \A i \in DOMAIN s : s[i] <= m

RECURSIVE FoldFrom(_, _, _)
\* Reduce applied to d and each element of s, front to back
FoldFrom(r, d, s) ==
  IF s = <<>> THEN d ELSE FoldFrom(r, Reduce(r, d, Head(s)), Tail(s))
\* the sequential fold of s from InitValue()
SeqFold(r, DType, s) == FoldFrom(r, InitValue(r, DType), s)

\* the indices merged so far
Merged == (DOMAIN seq) \ todo
\* every element has been merged into dst
Folded == pc \in {"fold", "done"} /\ todo = {}

\* ------------------------------------------------------------ claims on op and sv
\* C1: for each of the five savers and all values dest_old and src of
\* index_t (src # 0 for divto), dest after Save(dest, src) equals
\* OPType::Map(dest_old, src) for the operator the saver declares.
C1_SaveIsOPTypeMap ==
  (call[2] = "Save" /\ (call[1] = "divto" => b0 # 0))
    => a = Map(OPType(call[1]), a0, b0)

C1_Witness ==
  /\ call = <<"divto", "Save">>
  /\ b0 = 2
  /\ a0 = 3
  /\ a = 1

\* C6: for all values a, b of index_t the operators return a*b, a+b, a-b,
\* a/b (b # 0), b and a (in the arithmetic of the type), and a call of Map
\* changes nothing but its result.
C6_MapResults ==
  call[2] = "Map" =>
    /\ a = a0
    /\ b = b0
    /\ call[1] = "mul" => ret = (a0 * b0) % Mod
    /\ call[1] = "plus" => ret = (a0 + b0) % Mod
    /\ call[1] = "minus" => ret = (a0 - b0) % Mod
    /\ (call[1] = "div" /\ b0 # 0) => ret = a0 \div b0
    /\ call[1] = "right" => ret = b0
    /\ call[1] = "identity" => ret = a0

C6_Witness ==
  /\ call = <<"right", "Map">>
  /\ a0 = 1
  /\ b0 = 2
  /\ ret = 2
  /\ a = 1

C8_FusedForm ==
  /\ (call[2] = "Save" /\ "AlphaBLAS" \in Members(call[1]))
       => a = (AlphaBLAS(call[1]) * b0 + BetaBLAS(call[1]) * a0) % Mod
  /\ call = <<"saveto", "AlphaBLAS">> => ret = 1
  /\ call = <<"saveto", "BetaBLAS">> => ret = 0
  /\ call = <<"plusto", "AlphaBLAS">> => ret = 1
  /\ call = <<"plusto", "BetaBLAS">> => ret = 1

C8_Witness ==
  /\ call = <<"plusto", "Save">>
  /\ a0 = 1
  /\ b0 = 2
  /\ a = 3

\* ------------------------------------------------------------ claims on a reduction
\* C2: from dst = maximum::InitValue(), Reduce applied once for every
\* element of a non-empty sequence, in any order, leaves the true maximum
\* of the sequence in dst.
C2_MaximumOfSequence ==
  (red = "maximum" /\ Folded /\ seq # <<>>) => dst = TrueMax(seq)

\* C3: from dst = sum::InitValue(), Reduce applied once for every element
\* leaves the arithmetic sum of the sequence in dst (in the arithmetic of
\* the type: exactly the sum when it is representable), and every
\* permutation of the sequence yields the same dst.
C3_SumOfSequence ==
  (red = "sum" /\ Folded) =>
    /\ dst = SumSeq(seq) % Mod
    /\ SumSeq(seq) < Mod => dst = SumSeq(seq)
    /\ \A p \in Permutations(DOMAIN seq) :
         SeqFold("sum", DT, [i \in DOMAIN seq |-> seq[p[i]]]) = dst

C3_Witness ==
  /\ red = "sum"
  /\ pc = "done"
  /\ seq = <<3, 1, 2>>
  /\ dst = 6

\* C4: for both reducers InitValue() is an identity of Reduce: after
\* dst = InitValue(); Reduce(dst, x) the destination holds exactly x, for
\* every value x of the type.
C4_InitValueIsIdentity ==
  (pc = "fold" /\ Cardinality(Merged) = 1)
    => \A i \in Merged : dst = seq[i]

\* C5: for a non-empty sequence reduced with maximum to r, PartialGrad(r, s)
\* is 1 for every element equal to r and 0 for every other; the k elements
\* that tie for the maximum each receive 1 (the gradients sum to k) and at
\* least one element receives 1.
C5_GradientOfMaximum ==
  (red = "maximum" /\ pc = "done" /\ seq # <<>>) =>
    /\ \A i \in DOMAIN seq : grad[i] = (IF seq[i] = dst THEN 1 ELSE 0)
    /\ SumSeq(grad) = Cardinality({i \in DOMAIN seq : seq[i] = TrueMax(seq)})
    /\ \E i \in DOMAIN seq : grad[i] = 1

\* ------------------------------------------------------------ claims on concurrent streams
\* every stream's part has been merged into dst
AllMerged == pc = "merge" /\ \A s \in Streams : spc[s] = "merged"

\* C9: for either reducer, when the streams split the sequence in any way,
\* each folds its share into its own destination started at InitValue()
\* (a stream's share may be empty) and the parts are merged by a second
\* Reduce pass in any order, the result is, under every interleaving, the
\* sequential fold of the whole sequence from InitValue().
C9_PartialsEqualSequentialFold ==
  AllMerged => dst = SeqFold(red, DT, seq)

C9_Witness ==
  /\ AllMerged
  /\ red = "sum"
  /\ seq = <<1, 2>>
  /\ part[1] = 2
  /\ part[2] = 1
  /\ dst = 3

\* the fold of all the values merged into a shared dst
SharedFold == IF red = "sum" THEN SumSeq(seq) % Mod ELSE TrueMax(seq)
\* every stream's call of Reduce on the shared dst has returned
AllStored == pc = "shared" /\ \A s \in DOMAIN seq : spc[s] = "stored"

\* C10 as stated: every Reduce(dst, src) on a shared dst is an atomic merge
\* step, so when several streams call Reduce on the same dst concurrently
\* no update is lost and the final dst is the fold of all merged values.
C10_NoLostUpdate ==
  AllStored => dst = SharedFold

\* C10 as amended: when the callers serialise the calls of Reduce on a
\* shared dst, no update is lost and the final dst is the fold of all
\* merged values.
C10_NoLostUpdateWhenSerialised ==
  (AllStored /\ sync.on) => dst = SharedFold

C10_Witness ==
  /\ AllStored
  /\ sync.on
  /\ red = "sum"
  /\ seq = <<1, 2>>
  /\ dst = 3
====
